---- MODULE Spec2Model ----
(***************************************************************************)
(* 1-Day-1-Commit: the streak calculator (GitHubService.getCurrentStreak), *)
(* the status check that persists its result (GET /today) and the reminder *)
(* scheduler (processReminders / checkUserAndNotify).                      *)
(*                                                                         *)
(* Time is counted in minutes since an epoch that falls on a Sunday 00:00  *)
(* UTC; a calendar date ("YYYY-MM-DD") is represented by its day number.   *)
(***************************************************************************)
EXTENDS Integers, Sequences, FiniteSets, TLC

(***************************************************************************)
(* Bounds of the model.                                                    *)
(***************************************************************************)
\* calendar dates that contribution data may mention are 0..MaxDay
MaxDay == 3
\* a day's contribution count is in 0..MaxCount
MaxCount == 1
\* the longest list of events that the events API answers with
MaxEvents == 2
\* the number of push-subscription registrations that are followed
MaxSubscriptions == 3
\* the number of reminders that are added
MaxReminders == 2

(***************************************************************************)
(* Program constants.                                                      *)
(***************************************************************************)
\* 86400000 ms, the length of a day, in the model's unit (minutes)
MinPerDay == 1440
\* the events fallback generates the last 365 days
FallbackDays == 365

Users == {"u1", "u2"}
NULL == "null"
NoRow == [absent |-> TRUE]

Max(a, b) == IF a >= b THEN a ELSE b

(***************************************************************************)
(* Time zones: IANA names with their offset from UTC in minutes.  A name   *)
(* that Intl does not know makes toLocaleTimeString throw a RangeError.    *)
(***************************************************************************)
Zones == {"UTC", "America/New_York", "Pacific/Auckland"}
BadZone == "Mars/Olympus"

ZoneOffset(tz) ==
    CASE tz = "UTC" -> 0
      [] tz = "America/New_York" -> -300
      [] tz = "Pacific/Auckland" -> 720

\* new Date(ms).toISOString().split('T')[0]: the UTC calendar date
IsoDate(t) == t \div MinPerDay
\* new Date("YYYY-MM-DD").getTime(): midnight UTC of that date
DateTime(d) == d * MinPerDay
\* the calendar date of instant t on the wall clock of zone tz
LocalDate(t, tz) == (t + ZoneOffset(tz)) \div MinPerDay

(***************************************************************************)
(* Contribution data: sequences of [date, count].                          *)
(***************************************************************************)
Dates == 0..MaxDay
Absent == -1
\* a last_commit_date that is null
NoDate == Absent

RECURSIVE CalendarFrom(_, _)
\* the entries of f (date -> count or Absent) from date d on, oldest first
CalendarFrom(f, d) ==
    IF d > MaxDay THEN <<>>
    ELSE IF f[d] = Absent THEN CalendarFrom(f, d + 1)
    ELSE <<[date |-> d, count |-> f[d]]>> \o CalendarFrom(f, d + 1)

\* what the GraphQL contribution calendar can return: one entry per date,
\* oldest first, dates possibly missing
CalendarInputs == {CalendarFrom(f, 0) : f \in [Dates -> {Absent} \cup (0..MaxCount)]}

\* what the events fallback builds: one entry for each of the last
\* FallbackDays days up to today (here: as far back as the dates go)
FallbackInputs(today) ==
    {CalendarFrom(f, 0) :
        f \in {g \in [Dates -> {Absent} \cup (0..MaxCount)] :
                  \A d \in Dates :
                      (g[d] # Absent) <=> (d <= today /\ d > today - FallbackDays)}}

(***************************************************************************)
(* Array.prototype.sort with a comparator on the dates (stable).           *)
(***************************************************************************)
RECURSIVE InsertSorted(_, _, _)
\* insert entry e into the sorted sequence s after every entry that does
\* not compare greater than it
InsertSorted(e, s, descending) ==
    IF s = <<>> THEN <<e>>
    ELSE LET cmp == IF descending
                    THEN DateTime(e.date) - DateTime(Head(s).date)
                    ELSE DateTime(Head(s).date) - DateTime(e.date)
         IN IF cmp > 0 THEN <<e>> \o s
            ELSE <<Head(s)>> \o InsertSorted(e, Tail(s), descending)

\* no sort: the entries are taken to arrive oldest first
SortByDateAsSupplied(s, descending) ==
    IF descending THEN [i \in 1..Len(s) |-> s[Len(s) + 1 - i]] ELSE s

RECURSIVE SortByDate(_, _)
SortByDate(s, descending) ==
    IF s = <<>> THEN <<>>
    ELSE InsertSorted(s[Len(s)], SortByDate(SubSeq(s, 1, Len(s) - 1), descending),
                      descending)

(***************************************************************************)
(* GitHubService.getCurrentStreak                                          *)
(***************************************************************************)
RECURSIVE CurrentLoopNeedsCountedPrev(_, _, _, _, _, _)
CurrentLoopNeedsCountedPrev(sorted, i, currentStreak, streakBroken, today, yesterday) ==
    IF i > Len(sorted) \/ streakBroken THEN currentStreak
    ELSE LET day == sorted[i] IN
         IF day.count > 0 THEN
            IF i = 1 THEN
               CurrentLoopNeedsCountedPrev(sorted, i + 1,
                   IF day.date = today \/ day.date = yesterday THEN 1 ELSE currentStreak,
                   FALSE, today, yesterday)
            ELSE LET diffDays == (DateTime(sorted[i - 1].date) - DateTime(day.date))
                                     \div MinPerDay
                 IN IF diffDays = 1 /\ sorted[i - 1].count > 0
                    THEN CurrentLoopNeedsCountedPrev(sorted, i + 1, currentStreak + 1,
                                                     FALSE, today, yesterday)
                    ELSE CurrentLoopNeedsCountedPrev(sorted, i + 1, currentStreak,
                                                     TRUE, today, yesterday)
         ELSE IF i = 1 /\ day.date = today THEN
            CurrentLoopNeedsCountedPrev(sorted, i + 1, currentStreak, FALSE, today, yesterday)
         ELSE IF currentStreak > 0 THEN
            CurrentLoopNeedsCountedPrev(sorted, i + 1, currentStreak, TRUE, today, yesterday)
         ELSE CurrentLoopNeedsCountedPrev(sorted, i + 1, currentStreak, FALSE, today, yesterday)

RECURSIVE CurrentLoopSkipsZeroDays(_, _, _, _, _, _)
\* a loop that a day without contributions never ends
CurrentLoopSkipsZeroDays(sorted, i, currentStreak, streakBroken, today, yesterday) ==
    IF i > Len(sorted) \/ streakBroken THEN currentStreak
    ELSE LET day == sorted[i] IN
         IF day.count > 0 THEN
            IF i = 1 THEN
               CurrentLoopSkipsZeroDays(sorted, i + 1,
                   IF day.date = today \/ day.date = yesterday THEN 1 ELSE currentStreak,
                   FALSE, today, yesterday)
            ELSE LET diffDays == (DateTime(sorted[i - 1].date) - DateTime(day.date))
                                     \div MinPerDay
                 IN IF diffDays = 1
                    THEN CurrentLoopSkipsZeroDays(sorted, i + 1, currentStreak + 1, FALSE,
                                                  today, yesterday)
                    ELSE CurrentLoopSkipsZeroDays(sorted, i + 1, currentStreak, TRUE,
                                                  today, yesterday)
         ELSE CurrentLoopSkipsZeroDays(sorted, i + 1, currentStreak, FALSE, today, yesterday)

RECURSIVE CurrentLoopIgnoresGaps(_, _, _, _, _, _)
\* a loop that does not compare the dates of neighbouring entries
CurrentLoopIgnoresGaps(sorted, i, currentStreak, streakBroken, today, yesterday) ==
    IF i > Len(sorted) \/ streakBroken THEN currentStreak
    ELSE LET day == sorted[i] IN
         IF day.count > 0 THEN
            IF i = 1 THEN
               CurrentLoopIgnoresGaps(sorted, i + 1,
                   IF day.date = today \/ day.date = yesterday THEN 1 ELSE currentStreak,
                   FALSE, today, yesterday)
            ELSE CurrentLoopIgnoresGaps(sorted, i + 1, currentStreak + 1, FALSE,
                                        today, yesterday)
         ELSE IF i = 1 /\ day.date = today THEN
            CurrentLoopIgnoresGaps(sorted, i + 1, currentStreak, FALSE, today, yesterday)
         ELSE IF currentStreak > 0 THEN
            CurrentLoopIgnoresGaps(sorted, i + 1, currentStreak, TRUE, today, yesterday)
         ELSE CurrentLoopIgnoresGaps(sorted, i + 1, currentStreak, FALSE, today, yesterday)

RECURSIVE CurrentLoop(_, _, _, _, _, _)
\* the loop "for (let i = 0; i < sorted.length && !streakBroken; i++)";
\* i counts from 1 here
CurrentLoop(sorted, i, currentStreak, streakBroken, today, yesterday) ==
    IF i > Len(sorted) \/ streakBroken THEN currentStreak
    ELSE LET day == sorted[i] IN
         IF day.count > 0 THEN
            IF i = 1 THEN
               \* first day: must be today or yesterday
               CurrentLoop(sorted, i + 1,
                   IF day.date = today \/ day.date = yesterday THEN 1 ELSE currentStreak,
                   FALSE, today, yesterday)
            ELSE LET diffDays == (DateTime(sorted[i - 1].date) - DateTime(day.date))
                                     \div MinPerDay
                 IN IF diffDays = 1
                    THEN CurrentLoop(sorted, i + 1, currentStreak + 1, FALSE,
                                         today, yesterday)
                    ELSE CurrentLoop(sorted, i + 1, currentStreak, TRUE,
                                         today, yesterday)
         ELSE IF i = 1 /\ day.date = today THEN
            \* today has no contributions yet: continue
            CurrentLoop(sorted, i + 1, currentStreak, FALSE, today, yesterday)
         ELSE IF currentStreak > 0 THEN
            CurrentLoop(sorted, i + 1, currentStreak, TRUE, today, yesterday)
         ELSE CurrentLoop(sorted, i + 1, currentStreak, FALSE, today, yesterday)

RECURSIVE LongestLoopIgnoresGaps(_, _, _, _)
\* a chronological loop that does not look at the dates
LongestLoopIgnoresGaps(chronological, i, tempStreak, longestStreak) ==
    IF i > Len(chronological) THEN longestStreak
    ELSE IF chronological[i].count > 0 THEN
         LET temp == IF i = 1 THEN 1
                     ELSE IF chronological[i - 1].count > 0
                          THEN tempStreak + 1 ELSE 1
         IN LongestLoopIgnoresGaps(chronological, i + 1, temp, Max(longestStreak, temp))
    ELSE LongestLoopIgnoresGaps(chronological, i + 1, 0, longestStreak)

RECURSIVE LongestLoop(_, _, _, _)
\* the chronological loop; i counts from 1 here
LongestLoop(chronological, i, tempStreak, longestStreak) ==
    IF i > Len(chronological) THEN longestStreak
    ELSE IF chronological[i].count > 0 THEN
         LET temp ==
                IF i = 1 THEN 1
                ELSE LET diffDays == (DateTime(chronological[i].date)
                                        - DateTime(chronological[i - 1].date))
                                         \div MinPerDay
                     IN IF diffDays = 1 /\ chronological[i - 1].count > 0
                        THEN tempStreak + 1 ELSE 1
         IN LongestLoop(chronological, i + 1, temp, Max(longestStreak, temp))
    ELSE LongestLoop(chronological, i + 1, 0, longestStreak)

\* the streak of the contributions as computed at instant now
StreakOf(contributions, now) ==
    LET sorted == SortByDate(contributions, TRUE)
        today == IsoDate(now)
        yesterday == IsoDate(now - MinPerDay)
        chronological == SortByDate(contributions, FALSE)
    IN [currentStreak |-> CurrentLoop(sorted, 1, 0, FALSE, today, yesterday),
        longestStreak |-> LongestLoop(chronological, 1, 0, 0)]

\* getCurrentStreak never throws: an error while calculating yields (0, 0)
getCurrentStreak(contributions, now) == StreakOf(contributions, now)

(***************************************************************************)
(* GitHubService.getContributions: the GraphQL calendar, else the events   *)
(* fallback, else (both failed) the empty list.                            *)
(***************************************************************************)
Sources == {"graphql", "events", "none"}

getContributions(source, today) ==
    CASE source = "graphql" -> CalendarInputs
      [] source = "events" -> FallbackInputs(today)
      [] source = "none" -> {<<>>}

(***************************************************************************)
(* State.                                                                  *)
(***************************************************************************)
VARIABLES
    clock,        \* the current instant (Date.now()), in minutes
    calcInput,    \* the streak calculator's input, when run on its own
    calcResult,   \* and its result
    suggestInput,   \* the arguments of getSuggestion, when run on its own
    suggestResult,  \* the random draws it made and what it returned
    commitInput,    \* what GitHub answers to hasCommittedToday, when run on its own
    commitResult,   \* and what hasCommittedToday returned
    users,        \* table users: id -> row
    streaks,      \* table streaks: user_id -> row
    lastCheck,    \* the last GET /today: who asked, what the upstream gave, the response
    prefs,        \* table preferences: user_id -> row
    reminders,    \* table reminder_times, in row order
    pushSubs,     \* table push_subscriptions as the scheduler reads it: user_id -> row
    env,          \* the process environment: TZ, VAPID keys set, RESEND_API_KEY set
    ticks,        \* the runs of processReminders started so far
    log,          \* what the scheduler has done: calls, sends and caught errors
    pushRows,     \* table push_subscriptions, every row, as the routes write it
    pushing,      \* the users for whom a webpush.sendNotification is awaited
    lastRegistered,  \* user_id -> the id of the row of the user's last registration
    uuids,        \* how many ids crypto.randomUUID() has handed out
    request       \* the last request to the reminder routes: route, user, id

calcVars == <<calcInput, calcResult, suggestInput, suggestResult, commitInput, commitResult>>
schedVars == <<prefs, reminders, pushSubs, env, ticks, log>>
routeVars == <<pushRows, pushing, lastRegistered, uuids, request>>
vars == <<clock, calcInput, calcResult, suggestInput, suggestResult, commitInput,
          commitResult, users, streaks, lastCheck,
          prefs, reminders, pushSubs, env, ticks, log, pushRows, pushing,
          lastRegistered, uuids, request>>

\* the instants at which the model looks at the system: shortly after and
\* shortly before midnight UTC of the last two days that data may mention
Instants == {DateTime(d) + m : d \in {MaxDay - 1, MaxDay}, m \in {30, MinPerDay - 30}}

\* the row that "INSERT INTO preferences (user_id)" creates
DefaultPrefs == [email_enabled |-> 1, push_enabled |-> 1, weekends_off |-> 0,
                 email_when_committed |-> 0]
\* TZ unset, both notification services configured
DefaultEnv == [serverZone |-> "UTC", vapid |-> TRUE, resend |-> TRUE]
NoCalc == [now |-> 0, timezone |-> NULL, contributions |-> <<>>]
NoCheck == [user |-> NULL]
\* the calculator has not run yet
NoResult == [currentStreak |-> -1, longestStreak |-> -1]
NoSuggestInput == [now |-> 0, repos |-> <<>>, excludedRepos |-> {}, repoNotes |-> <<>>]
\* getSuggestion has not run yet
NoSuggestResult == [pending |-> TRUE]
SuggestIdle == suggestInput = NoSuggestInput /\ suggestResult = NoSuggestResult
NoCommitInput == [today |-> 0, graphql |-> [ok |-> FALSE], events |-> [ok |-> FALSE]]
\* hasCommittedToday has not run yet
NoCommitResult == [pending |-> TRUE]
CommitIdle == commitInput = NoCommitInput /\ commitResult = NoCommitResult
\* no registration yet
NoId == 0
NoRequest == [route |-> NULL]
\* the routes have not been called
RoutesIdle ==
    /\ pushRows = {}
    /\ pushing = {}
    /\ lastRegistered = [u \in Users |-> NoId]
    /\ uuids = 0
    /\ request = NoRequest

(***************************************************************************)
(* The streak calculator on its own: any contribution data, any instant.   *)
(***************************************************************************)
InitCalc ==
    /\ calcInput \in [now : Instants, timezone : Zones, contributions : CalendarInputs]
    /\ calcResult = NoResult
    /\ SuggestIdle
    /\ CommitIdle
    /\ RoutesIdle
    /\ clock = calcInput.now
    /\ users = [u \in Users |-> NoRow]
    /\ streaks = [u \in Users |-> NoRow]
    /\ lastCheck = NoCheck
    /\ prefs = [u \in Users |-> NoRow]
    /\ reminders = <<>>
    /\ pushSubs = [u \in Users |-> NoRow]
    /\ env = DefaultEnv
    /\ ticks = <<>>
    /\ log = {}

Calculate ==
    /\ calcResult = NoResult
    /\ calcResult' = getCurrentStreak(calcInput.contributions, calcInput.now)
    /\ UNCHANGED <<routeVars, clock, calcInput, suggestInput, suggestResult, commitInput,
                   commitResult, users, streaks,
                   lastCheck, schedVars>>

NextCalc == Calculate

SpecCalc == InitCalc /\ [][NextCalc]_vars

\* the entries of a calendar in every order
Orderings(contributions) ==
    LET n == Len(contributions)
    IN {[i \in 1..n |-> contributions[p[i]]] :
           p \in {q \in [1..n -> 1..n] : \A i, j \in 1..n : q[i] = q[j] => i = j}}

\* the calculator on entries that are supplied in any order
InitCalcOrder ==
    /\ \E now \in Instants, calendar \in CalendarInputs :
          \E contributions \in Orderings(calendar) :
             calcInput = [now |-> now, timezone |-> "UTC",
                          contributions |-> contributions]
    /\ calcResult = NoResult
    /\ SuggestIdle
    /\ CommitIdle
    /\ RoutesIdle
    /\ clock = calcInput.now
    /\ users = [u \in Users |-> NoRow]
    /\ streaks = [u \in Users |-> NoRow]
    /\ lastCheck = NoCheck
    /\ prefs = [u \in Users |-> NoRow]
    /\ reminders = <<>>
    /\ pushSubs = [u \in Users |-> NoRow]
    /\ env = DefaultEnv
    /\ ticks = <<>>
    /\ log = {}

SpecCalcOrder == InitCalcOrder /\ [][NextCalc]_vars

(***************************************************************************)
(* GitHubService.getSuggestion.  A score is kept exact by scaling it with  *)
(* DayCap * IssueCap * RandomSteps; Math.random() is one of the            *)
(* RandomSteps values 0, 1/RandomSteps, ... below 1.                       *)
(***************************************************************************)
\* the longest list of repositories
MaxRepos == 2
\* the number of values that Math.random() can take
RandomSteps == 3
\* "Math.min(daysSinceLastPush / 365, 1)"
DayCap == 365
\* "Math.min(repo.open_issues_count / 50, 1)"
IssueCap == 50

Min(a, b) == IF a <= b THEN a ELSE b

ScoreScale == DayCap * IssueCap * RandomSteps

\* "Math.floor((now.getTime() - lastPush.getTime()) / (1000 * 60 * 60 * 24))"
DaysSinceLastPush(now, pushed_at) == (now - pushed_at) \div MinPerDay

\* repoNotes?.get(full_name): the note, or undefined
NotesGet(repoNotes, full_name) ==
    IF full_name \in DOMAIN repoNotes THEN repoNotes[full_name] ELSE NoRow

\* "notes?.priority || 3"
PriorityOf(notes) ==
    IF notes = NoRow THEN 3
    ELSE IF "priority" \notin DOMAIN notes THEN 3
    ELSE IF notes.priority = 0 THEN 3 ELSE notes.priority

\* "notes?.difficulty || 3"
DifficultyOf(notes) ==
    IF notes = NoRow THEN 3
    ELSE IF "difficulty" \notin DOMAIN notes THEN 3
    ELSE IF notes.difficulty = 0 THEN 3 ELSE notes.difficulty

\* Math.min(daysSinceLastPush / 365, 1) * 100 * 0.30, scaled
DayScore(daysSinceLastPush) ==
    Min(daysSinceLastPush, DayCap) * 30 * IssueCap * RandomSteps

\* Math.min(repo.open_issues_count / 50, 1) * 100 * 0.20, scaled
IssueScore(open_issues_count) ==
    Min(open_issues_count, IssueCap) * 20 * DayCap * RandomSteps

\* (priority / 5) * 100 * 0.25, scaled
PriorityScore(priority) == priority * 5 * ScoreScale

\* a difficulty score that grows with the difficulty
DifficultyScoreDirect(difficulty) == difficulty * 3 * ScoreScale

\* ((6 - difficulty) / 5) * 100 * 0.15, scaled
DifficultyScore(difficulty) == (6 - difficulty) * 3 * ScoreScale

\* Math.random() * 100 without its weight, scaled
RandomScoreUnweighted(random) == random * 100 * DayCap * IssueCap

\* Math.random() * 100 * 0.10, scaled; the draw is random / RandomSteps
RandomScore(random) == random * 10 * DayCap * IssueCap

Score(repo, notes, now, random) ==
    DayScore(DaysSinceLastPush(now, repo.pushed_at))
    + IssueScore(repo.open_issues_count)
    + PriorityScore(PriorityOf(notes))
    + DifficultyScore(DifficultyOf(notes))
    + RandomScore(random)

\* one element of scoredRepos
ScoredRepo(repo, notes, now, random) ==
    LET score == Score(repo, notes, now, random)
    IN [repo |-> [full_name |-> repo.full_name,
                  pushed_at |-> repo.pushed_at,
                  open_issues_count |-> repo.open_issues_count,
                  daysSinceLastPush |-> DaysSinceLastPush(now, repo.pushed_at),
                  score |-> score],
        score |-> score]

RECURSIVE InsertByScore(_, _)
\* the stable sort with comparator (a, b) => b.score - a.score: x goes
\* after every element that does not score less
InsertByScore(sorted, x) ==
    IF sorted = <<>> THEN <<x>>
    ELSE IF Head(sorted).score >= x.score
         THEN <<Head(sorted)>> \o InsertByScore(Tail(sorted), x)
         ELSE <<x>> \o sorted

RECURSIVE SortByScore(_)
SortByScore(scoredRepos) ==
    IF scoredRepos = <<>> THEN <<>>
    ELSE InsertByScore(SortByScore(SubSeq(scoredRepos, 1, Len(scoredRepos) - 1)),
                       scoredRepos[Len(scoredRepos)])

RECURSIVE Filter(_, _)
\* repos.filter(repo => !excludedRepos.includes(repo.full_name))
Filter(repos, excludedRepos) ==
    IF repos = <<>> THEN <<>>
    ELSE (IF Head(repos).full_name \in excludedRepos THEN <<>> ELSE <<Head(repos)>>)
         \o Filter(Tail(repos), excludedRepos)

\* no repository is filtered out
EligibleReposUnfiltered(repos, excludedRepos) == repos

EligibleRepos(repos, excludedRepos) == Filter(repos, excludedRepos)

\* the element of the sorted list that is returned
PickLast(sorted) == sorted[Len(sorted)]

Pick(sorted) == sorted[1]

\* the result is <<>> for null and <<repo>> for a suggestion; randoms[i] is
\* the draw made for the i-th eligible repository
getSuggestion(repos, excludedRepos, repoNotes, now, randoms) ==
    LET eligibleRepos == EligibleRepos(repos, excludedRepos)
    IN IF Len(eligibleRepos) = 0 THEN <<>>
       ELSE LET scoredRepos ==
                    [i \in 1..Len(eligibleRepos) |->
                        ScoredRepo(eligibleRepos[i],
                                   NotesGet(repoNotes, eligibleRepos[i].full_name),
                                   now, randoms[i])]
            IN <<Pick(SortByScore(scoredRepos)).repo>>

\* the instant of the call
SuggestNow == DateTime(400) + 720

RepoNames == <<"octo/a", "octo/b", "octo/c", "octo/d">>

\* a repository pushed 400 days ago with 60 open issues, one pushed 1 day
\* ago with none, and one in between
RepoShapes ==
    {[pushed_at |-> SuggestNow - (400 * MinPerDay) - 30, open_issues_count |-> 60],
     [pushed_at |-> SuggestNow - (200 * MinPerDay) - 30, open_issues_count |-> 25],
     [pushed_at |-> SuggestNow - MinPerDay - 30, open_issues_count |-> 0]}

\* no note, a note with a priority only, a note with a difficulty only
NoteRows == {NoRow, [priority |-> 5], [difficulty |-> 5]}

InitSuggest ==
    /\ clock = SuggestNow
    /\ calcInput = NoCalc
    /\ calcResult = NoResult
    /\ \E n \in 0..MaxRepos :
          \E shapes \in [1..n -> RepoShapes], notes \in [1..n -> NoteRows],
             excludedRepos \in SUBSET {RepoNames[i] : i \in 1..MaxRepos} :
             suggestInput =
                 [now |-> clock,
                  repos |-> [i \in 1..n |->
                                [full_name |-> RepoNames[i],
                                 pushed_at |-> shapes[i].pushed_at,
                                 open_issues_count |-> shapes[i].open_issues_count]],
                  excludedRepos |-> excludedRepos,
                  repoNotes |-> [name \in {RepoNames[i] : i \in 1..n} |->
                                    notes[CHOOSE i \in 1..n : RepoNames[i] = name]]]
    /\ suggestResult = NoSuggestResult
    /\ CommitIdle
    /\ RoutesIdle
    /\ users = [u \in Users |-> NoRow]
    /\ streaks = [u \in Users |-> NoRow]
    /\ lastCheck = NoCheck
    /\ prefs = [u \in Users |-> NoRow]
    /\ reminders = <<>>
    /\ pushSubs = [u \in Users |-> NoRow]
    /\ env = DefaultEnv
    /\ ticks = <<>>
    /\ log = {}

Suggest ==
    /\ suggestResult = NoSuggestResult
    /\ LET eligible == EligibleRepos(suggestInput.repos, suggestInput.excludedRepos)
       IN \E randoms \in [1..Len(eligible) -> 0..(RandomSteps - 1)] :
             suggestResult' =
                 [randoms |-> randoms,
                  returned |-> getSuggestion(suggestInput.repos,
                                             suggestInput.excludedRepos,
                                             suggestInput.repoNotes,
                                             suggestInput.now, randoms)]
    /\ UNCHANGED <<routeVars, clock, calcInput, calcResult, suggestInput, commitInput,
                   commitResult, users, streaks,
                   lastCheck, schedVars>>

NextSuggest == Suggest

SpecSuggest == InitSuggest /\ [][NextSuggest]_vars

(***************************************************************************)
(* The suggestion of a reminder notification (checkUserAndNotify, when the *)
(* user has not committed) next to the suggestion of GET /suggestion, for  *)
(* the same repositories, excluded_repos rows and repo_notes rows.         *)
(***************************************************************************)
\* the third argument of getSuggestion is left out
NotesUndefined == <<>>

\* "suggestion = await githubService.getSuggestion(repos, excludedRepos)"
SuggestForReminder ==
    /\ suggestResult = NoSuggestResult
    /\ LET eligible == EligibleRepos(suggestInput.repos, suggestInput.excludedRepos)
       IN \E randoms \in [1..Len(eligible) -> 0..(RandomSteps - 1)] :
             suggestResult' =
                 [randoms |-> randoms,
                  reminder |-> TRUE,
                  returned |-> getSuggestion(suggestInput.repos,
                                             suggestInput.excludedRepos,
                                             NotesUndefined,
                                             suggestInput.now, randoms)]
    /\ UNCHANGED <<routeVars, clock, calcInput, calcResult, suggestInput, commitInput,
                   commitResult, users, streaks, lastCheck, schedVars>>

NextReminderSuggest == Suggest \/ SuggestForReminder

SpecReminderSuggest == InitSuggest /\ [][NextReminderSuggest]_vars

(***************************************************************************)
(* GitHubService.hasCommittedToday: the commit count of today from GraphQL *)
(* or from the events fallback; {false, 0} when both fail.                 *)
(***************************************************************************)
\* an exception leaves the method
Thrown == [thrown |-> TRUE]

\* "x || 0" for a count that may be missing
OrZero(x) == IF x = Absent THEN 0 ELSE x

\* new Date(event.created_at).toISOString() throws a RangeError
InvalidDate(event) == event.created_at = Absent

\* the filter callback reads the date of push events only
FilterThrows(events) ==
    \E i \in DOMAIN events : events[i].type = "PushEvent" /\ InvalidDate(events[i])

IsTodayPush(event, today) == event.type = "PushEvent" /\ event.created_at = today

\* commitCount += event.payload?.commits?.length || 0, over today's push events
RECURSIVE CountCommits(_, _)
CountCommits(events, today) ==
    IF events = <<>> THEN 0
    ELSE (IF IsTodayPush(Head(events), today) THEN OrZero(Head(events).commits) ELSE 0)
         + CountCommits(Tail(events), today)

\* no inner catch: the second failure leaves the method
FallbackFailedRethrows == Thrown

\* the inner catch block
FallbackFailed == [hasCommitted |-> FALSE, commitCount |-> 0]

\* the outer catch block: the events API
EventsFallback(events, today) ==
    IF ~events.ok \/ FilterThrows(events.list) THEN FallbackFailed
    ELSE LET commitCount == CountCommits(events.list, today)
         IN [hasCommitted |-> commitCount > 0, commitCount |-> commitCount]

hasCommittedTodayFrom(graphql, events, today) ==
    IF graphql.ok
    THEN LET commitCount == OrZero(graphql.totalCommitContributions)
         IN [hasCommitted |-> commitCount > 0, commitCount |-> commitCount]
    ELSE EventsFallback(events, today)

hasCommittedToday == {[hasCommitted |-> n > 0, commitCount |-> n] : n \in 0..MaxCount}

(***************************************************************************)
(* hasCommittedToday on its own: any answer of the two GitHub APIs.        *)
(***************************************************************************)
\* the GraphQL request fails, or answers with a count or without one
GraphqlOutcomes ==
    {[ok |-> FALSE]}
    \cup {[ok |-> TRUE, totalCommitContributions |-> n] : n \in {Absent} \cup (0..MaxCount)}

\* an event of the events API; a missing field is Absent
EventShapes ==
    [type : {"PushEvent", "WatchEvent"},
     created_at : {Absent, MaxDay - 1, MaxDay},
     commits : {Absent} \cup (0..MaxCount)]

\* the events request fails, or answers with a list of events
EventsOutcomes ==
    {[ok |-> FALSE]}
    \cup {[ok |-> TRUE, list |-> list] :
             list \in UNION {[1..n -> EventShapes] : n \in 0..MaxEvents}}

InitCommitted ==
    /\ commitInput \in [today : {MaxDay}, graphql : GraphqlOutcomes,
                         events : EventsOutcomes]
    /\ commitResult = NoCommitResult
    /\ calcInput = NoCalc
    /\ calcResult = NoResult
    /\ SuggestIdle
    /\ RoutesIdle
    /\ clock = DateTime(commitInput.today) + 30
    /\ users = [u \in Users |-> NoRow]
    /\ streaks = [u \in Users |-> NoRow]
    /\ lastCheck = NoCheck
    /\ prefs = [u \in Users |-> NoRow]
    /\ reminders = <<>>
    /\ pushSubs = [u \in Users |-> NoRow]
    /\ env = DefaultEnv
    /\ ticks = <<>>
    /\ log = {}

CheckCommitted ==
    /\ commitResult = NoCommitResult
    /\ commitResult' = hasCommittedTodayFrom(commitInput.graphql, commitInput.events,
                                              commitInput.today)
    /\ UNCHANGED <<routeVars, clock, calcInput, calcResult, suggestInput, suggestResult,
                   commitInput, users, streaks, lastCheck, schedVars>>

NextCommitted == CheckCommitted

SpecCommitted == InitCommitted /\ [][NextCommitted]_vars

(***************************************************************************)
(* POST /github/callback for a GitHub account seen for the first time:     *)
(* inserts the user and initializes the streak row to (0, 0).              *)
(***************************************************************************)
Signup(u) ==
    /\ users[u] = NoRow
    /\ users' = [users EXCEPT ![u] = [email |-> "mail",
                                      timezone |-> "America/New_York"]]
    /\ streaks' = [streaks EXCEPT ![u] = [current_streak |-> 0,
                                          longest_streak |-> 0,
                                          last_commit_date |-> NoDate]]
    /\ prefs' = [prefs EXCEPT ![u] = DefaultPrefs]
    /\ UNCHANGED <<routeVars, clock, calcVars, lastCheck, reminders, pushSubs, env, ticks, log>>

(***************************************************************************)
(* GET /today: the streak cache update.                                    *)
(***************************************************************************)
\* the longest_streak written by "UPDATE streaks SET ..."
StoredLongestKeepsOld(computed, existing) == existing

StoredLongestOverwrites(computed, existing) == computed

StoredLongest(computed, existing) == Max(computed, existing)

\* a row whose last_commit_date is today after every check
UpdatedStreakStampsAlways(existingStreak, streakData, todayStatus, today) ==
    [current_streak |-> streakData.currentStreak,
     longest_streak |-> IF existingStreak # NoRow
                        THEN StoredLongest(streakData.longestStreak,
                                           existingStreak.longest_streak)
                        ELSE streakData.longestStreak,
     last_commit_date |-> today]

\* the streaks row after the update (or the insert, when there is none)
UpdatedStreak(existingStreak, streakData, todayStatus, today) ==
    IF existingStreak # NoRow
    THEN [current_streak |-> streakData.currentStreak,
          longest_streak |-> StoredLongest(streakData.longestStreak,
                                           existingStreak.longest_streak),
          last_commit_date |-> IF todayStatus.hasCommitted THEN today
                               ELSE existingStreak.last_commit_date]
    ELSE [current_streak |-> streakData.currentStreak,
          longest_streak |-> streakData.longestStreak,
          last_commit_date |-> IF todayStatus.hasCommitted THEN today ELSE NoDate]

\* every streakData that getCurrentStreak can return at instant t, by the
\* source that getContributions got its data from
StreakOutcomes ==
    [source \in Sources, t \in Instants |->
        {getCurrentStreak(contributions, t) :
            contributions \in getContributions(source, IsoDate(t))}]

Today(u) ==
    /\ users[u] # NoRow
    /\ \E todayStatus \in hasCommittedToday, source \in Sources :
         \E streakData \in StreakOutcomes[source, clock] :
            LET today == IsoDate(clock)
            IN /\ streaks' = [streaks EXCEPT
                                 ![u] = UpdatedStreak(streaks[u], streakData,
                                                      todayStatus, today)]
               /\ lastCheck' = [user |-> u,
                                source |-> source,
                                hasCommitted |-> todayStatus.hasCommitted,
                                commitCount |-> todayStatus.commitCount,
                                currentStreak |-> streakData.currentStreak,
                                longestStreak |-> streakData.longestStreak]
    /\ UNCHANGED <<routeVars, clock, calcVars, users, schedVars>>

\* a day passes
NextDay ==
    /\ IsoDate(clock) < MaxDay
    /\ clock' = clock + MinPerDay
    /\ UNCHANGED <<routeVars, calcVars, users, streaks, lastCheck, schedVars>>

Init ==
    /\ clock = DateTime(MaxDay - 1) + 30
    /\ calcInput = NoCalc
    /\ calcResult = NoResult
    /\ SuggestIdle
    /\ CommitIdle
    /\ RoutesIdle
    /\ users = [u \in Users |-> NoRow]
    /\ streaks = [u \in Users |-> NoRow]
    /\ lastCheck = NoCheck
    /\ prefs = [u \in Users |-> NoRow]
    /\ reminders = <<>>
    /\ pushSubs = [u \in Users |-> NoRow]
    /\ env = DefaultEnv
    /\ ticks = <<>>
    /\ log = {}

Next ==
    \/ \E u \in Users : Signup(u)
    \/ \E u \in Users : Today(u)
    \/ NextDay

Spec == Init /\ [][Next]_vars

(***************************************************************************)
(* The reminder scheduler.                                                 *)
(***************************************************************************)
\* the number of cron ticks that the model follows
MaxTicks == 2

\* a string of the program that is compared or parsed is the sequence of its
\* characters: "09:00" is <<"0", "9", ":", "0", "0">>
Digits == <<"0", "1", "2", "3", "4", "5", "6", "7", "8", "9">>
\* a number below 100 as two digits ('2-digit')
Pad2(n) == <<Digits[(n \div 10) + 1], Digits[(n % 10) + 1]>>

\* Intl throws a RangeError for a time zone it does not know
ThrowsRangeError(timeZone) == timeZone \notin Zones

\* the 12-hour rendering that locale 'en-US' gives without hour12: false
TwelveHourClock(now, timeZone) ==
    LET m == (now + ZoneOffset(timeZone)) % MinPerDay
        h == (m \div 60) % 12
    IN Pad2(IF h = 0 THEN 12 ELSE h) \o <<":">> \o Pad2(m % 60)

\* now.toLocaleTimeString('en-GB', {timeZone, hour: '2-digit', minute: '2-digit'}):
\* "HH:MM", 24-hour and zero-padded
toLocaleTimeString(now, timeZone) ==
    LET m == (now + ZoneOffset(timeZone)) % MinPerDay
    IN Pad2(m \div 60) \o <<":">> \o Pad2(m % 60)

\* new Date(t).getDay() in a process whose TZ is zone: 0 is Sunday
getDay(t, zone) == ((t + ZoneOffset(zone)) \div MinPerDay) % 7

RECURSIVE ParseInt(_, _)
\* parseInt: the number that the leading digits of the characters spell,
\* continuing from acc
ParseInt(chars, acc) ==
    IF chars = <<>> \/ \A d \in DOMAIN Digits : Digits[d] # Head(chars) THEN acc
    ELSE ParseInt(Tail(chars),
                  (acc * 10) + (CHOOSE d \in 0..9 : Digits[d + 1] = Head(chars)))

RECURSIVE BeforeColon(_)
\* time.split(':')[0]
BeforeColon(chars) ==
    IF chars = <<>> \/ Head(chars) = ":" THEN <<>>
    ELSE <<Head(chars)>> \o BeforeColon(Tail(chars))

\* parseInt(reminder.time.split(':')[0])
ParseHour(time) == ParseInt(BeforeColon(time), 0)

\* a classification that counts noon as morning and 17h as afternoon
TimeOfDayInclusive(hour) ==
    IF hour <= 12 THEN "morning" ELSE IF hour <= 17 THEN "afternoon" ELSE "evening"

TimeOfDay(hour) ==
    IF hour < 12 THEN "morning" ELSE IF hour < 17 THEN "afternoon" ELSE "evening"

\* "timeOfDay === 'morning' ? 'morning' : timeOfDay === 'evening' ? 'evening'
\* : 'afternoon'"
EmailType(timeOfDay) ==
    IF timeOfDay = "morning" THEN "morning"
    ELSE IF timeOfDay = "evening" THEN "evening" ELSE "afternoon"

\* JavaScript truthiness of an INTEGER column
Truthy(n) == n # 0

\* what the awaited calls of one checkUserAndNotify can come back with
Outcomes ==
    [hasCommitted : BOOLEAN,              \* hasCommittedToday (never throws)
     repos : {"ok", "throws"},            \* getUserRepos
     email : {"ok", "rejects"},           \* resend.emails.send
     push : {"ok", "410", "404", "other"}]  \* webpush.sendNotification

(***************************************************************************)
(* NotificationService.sendEmail: false when the service is not            *)
(* configured or the send fails; it never throws.                          *)
(***************************************************************************)
sendEmailRethrows(delivery) ==
    IF ~env.resend THEN "unconfigured"
    ELSE IF delivery = "ok" THEN "sent" ELSE "throws"

sendEmail(delivery) ==
    IF ~env.resend THEN "unconfigured"
    ELSE IF delivery = "ok" THEN "sent" ELSE "failed"

(***************************************************************************)
(* sendPushNotification: the result and the push_subscriptions table       *)
(* afterwards.  A 410 or 404 from the push service deletes the row.        *)
(***************************************************************************)
\* a send that does not look for the subscription row first
sendPushNotificationWithoutRow(userId, delivery) ==
    IF ~env.vapid THEN [result |-> "unconfigured", subs |-> pushSubs]
    ELSE IF delivery = "ok" THEN [result |-> "sent", subs |-> pushSubs]
    ELSE IF delivery \in {"410", "404"}
         THEN [result |-> delivery, subs |-> [pushSubs EXCEPT ![userId] = NoRow]]
    ELSE [result |-> delivery, subs |-> pushSubs]

sendPushNotificationPurgesAlways(userId, delivery) ==
    IF ~env.vapid THEN [result |-> "unconfigured", subs |-> pushSubs]
    ELSE IF pushSubs[userId] = NoRow THEN [result |-> "nosub", subs |-> pushSubs]
    ELSE IF delivery = "ok" THEN [result |-> "sent", subs |-> pushSubs]
    ELSE [result |-> delivery, subs |-> [pushSubs EXCEPT ![userId] = NoRow]]

sendPushNotification(userId, delivery) ==
    IF ~env.vapid THEN [result |-> "unconfigured", subs |-> pushSubs]
    ELSE IF pushSubs[userId] = NoRow THEN [result |-> "nosub", subs |-> pushSubs]
    ELSE IF delivery = "ok" THEN [result |-> "sent", subs |-> pushSubs]
    ELSE IF delivery \in {"410", "404"}
         THEN [result |-> delivery, subs |-> [pushSubs EXCEPT ![userId] = NoRow]]
    ELSE [result |-> delivery, subs |-> pushSubs]

(***************************************************************************)
(* checkUserAndNotify: what it logs and the push_subscriptions table       *)
(* afterwards.  An event is [kind, result, type].                          *)
(***************************************************************************)
Event(kind, result, type) == [kind |-> kind, result |-> result, type |-> type]

IsWeekendNow(userId) == getDay(clock, env.serverZone) \in {0, 6}

\* "if (hasCommitted && !prefs.email_when_committed) return"
SkipsCommittedAlways(hasCommitted, p) == hasCommitted

SkipsCommitted(hasCommitted, p) ==
    hasCommitted /\ ~Truthy(p.email_when_committed)

checkUserAndNotify(userId, timeOfDay, o) ==
    LET user == users[userId]
        p == prefs[userId]
        called == {Event("checkUserAndNotify", "called", timeOfDay)}
        quiet == [events |-> called, subs |-> pushSubs]
    IN
    IF user = NoRow \/ p = NoRow THEN quiet
    ELSE IF Truthy(p.weekends_off) /\ IsWeekendNow(userId) THEN quiet
    ELSE
    LET checked == called \cup {Event("hasCommittedToday",
                                      IF o.hasCommitted THEN "true" ELSE "false",
                                      timeOfDay)}
    IN
    IF SkipsCommitted(o.hasCommitted, p) THEN [events |-> checked, subs |-> pushSubs]
    ELSE IF ~o.hasCommitted /\ o.repos = "throws"
    THEN [events |-> checked \cup {Event("error", "github", timeOfDay)},
          subs |-> pushSubs]
    ELSE
    LET emailed == Truthy(p.email_enabled) /\ user.email # NULL
        emailResult == sendEmail(o.email)
        pushed == sendPushNotification(userId, o.push)
    IN
    IF emailed /\ emailResult = "throws"
    THEN [events |-> checked \cup {Event("email", emailResult, EmailType(timeOfDay)),
                                   Event("error", "email", timeOfDay)},
          subs |-> pushSubs]
    ELSE [events |-> checked
                     \cup (IF emailed
                           THEN {Event("email", emailResult, EmailType(timeOfDay))}
                           ELSE {})
                     \cup (IF Truthy(p.push_enabled)
                           THEN {Event("push", pushed.result, timeOfDay)} ELSE {}),
          subs |-> IF Truthy(p.push_enabled) THEN pushed.subs ELSE pushSubs]

(***************************************************************************)
(* processReminders                                                        *)
(***************************************************************************)
RECURSIVE EnabledReminders(_)
\* SELECT r.user_id, r.time, u.timezone FROM reminder_times r
\* JOIN users u ON r.user_id = u.id WHERE r.enabled = 1
\* (the row's id is kept to tell the rows apart)
EnabledReminders(table) ==
    IF table = <<>> THEN <<>>
    ELSE LET r == Head(table)
         IN (IF r.enabled = 1 /\ users[r.user_id] # NoRow
             THEN <<[id |-> r.id, user_id |-> r.user_id, time |-> r.time,
                     timezone |-> users[r.user_id].timezone]>>
             ELSE <<>>) \o EnabledReminders(Tail(table))

\* "reminder.timezone || 'UTC'"
ZoneOrUTC(timezone) == IF timezone = NULL THEN "UTC" ELSE timezone

\* the position in the list after a reminder whose processing threw
AbortAfterError(i, n) == n + 1

AfterError(i, n) == i + 1

\* what the reminders query of a tick can come back with
QueryOutcomes == {"ok", "throws"}

\* a query that throws rejects the promise of processReminders; without a
\* handler the rejection would end the process
RejectionUnhandled(query) == IF query = "throws" THEN "unhandled" ELSE "none"

\* "processReminders().catch(console.error)"
Rejection(query) == IF query = "throws" THEN "caught" ELSE "none"

\* cron fires at the next minute: processReminders reads the clock and the
\* enabled reminders
StartTick ==
    /\ Len(ticks) < MaxTicks
    /\ \A k \in DOMAIN ticks : ticks[k].rejection # "unhandled"
    /\ clock' = clock + 1
    /\ \E query \in QueryOutcomes :
          ticks' = Append(ticks, [now |-> clock',
                                  reminders |-> IF query = "ok"
                                                THEN EnabledReminders(reminders)
                                                ELSE <<>>,
                                  i |-> 1,
                                  rejection |-> Rejection(query)])
    /\ UNCHANGED <<routeVars, calcVars, users, streaks, lastCheck, prefs, reminders, pushSubs,
                   env, log>>

\* the events of tick k for reminder rid
Stamp(k, rid, events) ==
    {[tick |-> k, rid |-> rid, kind |-> e.kind, result |-> e.result,
      type |-> e.type] : e \in events}

\* the clock read again at every turn of the loop
TickNowReread(t, current) == current

\* "const now = new Date()" of the tick, whatever the clock shows by now
TickNow(t, current) == t.now

\* one turn of "for (const reminder of reminders)" in tick k
ProcessReminder(k) ==
    /\ k \in DOMAIN ticks
    /\ ticks[k].i <= Len(ticks[k].reminders)
    /\ LET t == ticks[k]
           n == Len(t.reminders)
           reminder == t.reminders[t.i]
           timeZone == ZoneOrUTC(reminder.timezone)
           hour == ParseHour(reminder.time)
           timeOfDay == TimeOfDay(hour)
       IN IF ThrowsRangeError(timeZone)
          THEN /\ log' = log \cup Stamp(k, reminder.id,
                                        {Event("error", "timezone", NULL)})
               /\ ticks' = [ticks EXCEPT ![k].i = AfterError(t.i, n)]
               /\ UNCHANGED pushSubs
          ELSE IF toLocaleTimeString(TickNow(t, clock), timeZone) = reminder.time
          THEN \E o \in Outcomes :
                  LET done == checkUserAndNotify(reminder.user_id, timeOfDay, o)
                      failed == \E e \in done.events : e.kind = "error"
                  IN /\ log' = log \cup Stamp(k, reminder.id, done.events)
                     /\ pushSubs' = done.subs
                     /\ ticks' = [ticks EXCEPT
                                     ![k].i = IF failed THEN AfterError(t.i, n)
                                              ELSE t.i + 1]
          ELSE /\ ticks' = [ticks EXCEPT ![k].i = t.i + 1]
               /\ UNCHANGED <<log, pushSubs>>
    /\ UNCHANGED <<routeVars, clock, calcVars, users, streaks, lastCheck, prefs, reminders, env>>

(***************************************************************************)
(* The database and the environment that the scheduler runs on.            *)
(***************************************************************************)
\* in minutes after Sunday 00:00 UTC: 20:59 UTC on a Friday, a Saturday and
\* a Sunday, one minute before the first tick
StartInstants == {(d * MinPerDay) + (20 * 60) + 59 : d \in {5, 6, 7}}

\* reminder times: the first tick's minute in UTC, the minute after, the same
\* instant in Auckland and in New York, and a time without zero padding
Times ==
    {<<"2", "1", ":", "0", "0">>, <<"2", "1", ":", "0", "1">>,
     <<"0", "9", ":", "0", "0">>, <<"1", "6", ":", "0", "0">>,
     <<"9", ":", "0", "0">>}

SignupStreak == [current_streak |-> 0, longest_streak |-> 0, last_commit_date |-> NoDate]

PrefsRows ==
    [email_enabled : {0, 1}, push_enabled : {0, 1}, weekends_off : {0, 1},
     email_when_committed : {0, 1}]

Subscription == [endpoint |-> "endpoint", p256dh |-> "p256dh", auth |-> "auth"]

\* the reminder of u2, due at the first tick's minute in UTC
OtherReminder == [id |-> "r2", user_id |-> "u2", time |-> <<"2", "1", ":", "0", "0">>, enabled |-> 1]

SchedIdle ==
    /\ calcInput = NoCalc
    /\ calcResult = NoResult
    /\ SuggestIdle
    /\ CommitIdle
    /\ RoutesIdle
    /\ streaks = [u \in Users |-> SignupStreak]
    /\ lastCheck = NoCheck
    /\ ticks = <<>>
    /\ log = {}

\* time matching: u1's time zone, reminder time and flag, the weekend
\* preference, the server's zone and the day of the week vary
InitMatch ==
    /\ SchedIdle
    /\ clock \in StartInstants
    /\ \E tz1 \in Zones \cup {BadZone} :
          users = [u \in Users |-> [email |-> "mail",
                                    timezone |-> IF u = "u1" THEN tz1 ELSE "UTC"]]
    /\ \E w \in {0, 1} :
          prefs = [u \in Users |-> IF u = "u1"
                                   THEN [DefaultPrefs EXCEPT !.weekends_off = w]
                                   ELSE DefaultPrefs]
    /\ \E time \in Times, enabled \in {0, 1} :
          LET mine == [id |-> "r1", user_id |-> "u1", time |-> time,
                       enabled |-> enabled]
          IN reminders \in {<<mine, OtherReminder>>, <<OtherReminder, mine>>}
    /\ pushSubs = [u \in Users |-> NoRow]
    /\ \E zone \in {"UTC", "Pacific/Auckland"} :
          env = [DefaultEnv EXCEPT !.serverZone = zone]

\* dispatch: u1's preferences, address and subscription and the configured
\* services vary; both users have a reminder due at the first tick, a Friday
InitNotify ==
    /\ SchedIdle
    /\ clock \in {t \in StartInstants : getDay(t, "UTC") = 5}
    /\ \E email \in {NULL, "mail"} :
          users = [u \in Users |->
                      [email |-> IF u = "u1" THEN email ELSE "mail",
                       timezone |-> "UTC"]]
    /\ \E p \in PrefsRows :
          prefs = [u \in Users |-> IF u = "u1" THEN p ELSE DefaultPrefs]
    /\ LET mine == [id |-> "r1", user_id |-> "u1", time |-> <<"2", "1", ":", "0", "0">>, enabled |-> 1]
       IN reminders \in {<<mine, OtherReminder>>, <<OtherReminder, mine>>}
    /\ \E sub \in {NoRow, Subscription} :
          pushSubs = [u \in Users |-> IF u = "u1" THEN sub ELSE NoRow]
    /\ env \in [serverZone : {"UTC"}, vapid : BOOLEAN, resend : BOOLEAN]

\* two reminders of one user: POST /reminders was called twice with the
\* same time; the second one may have been disabled since
InitTwin ==
    /\ SchedIdle
    /\ clock \in {t \in StartInstants : getDay(t, "UTC") = 5}
    /\ users = [u \in Users |-> [email |-> "mail", timezone |-> "UTC"]]
    /\ prefs = [u \in Users |-> DefaultPrefs]
    /\ \E enabled \in {0, 1} :
          reminders = <<[id |-> "r1", user_id |-> "u1",
                         time |-> <<"2", "1", ":", "0", "0">>, enabled |-> 1],
                        [id |-> "r3", user_id |-> "u1",
                         time |-> <<"2", "1", ":", "0", "0">>, enabled |-> enabled]>>
    /\ \E sub \in {NoRow, Subscription} :
          pushSubs = [u \in Users |-> IF u = "u1" THEN sub ELSE NoRow]
    /\ env = DefaultEnv

\* reminder times at the borders of the periods of the day
PeriodTimes ==
    {<<"0", "0", ":", "0", "0">>, <<"1", "1", ":", "5", "9">>,
     <<"1", "2", ":", "0", "0">>, <<"1", "6", ":", "5", "9">>,
     <<"1", "7", ":", "0", "0">>}

\* the minute of the day that a zero-padded time names
MinuteOf(time) == (ParseInt(SubSeq(time, 1, 2), 0) * 60) + ParseInt(SubSeq(time, 4, 5), 0)

\* periods of the day: u1 has a reminder at a border of a period, due at
\* the first tick, a Friday
InitPeriod ==
    /\ SchedIdle
    /\ users = [u \in Users |-> [email |-> "mail", timezone |-> "UTC"]]
    /\ prefs = [u \in Users |-> DefaultPrefs]
    /\ \E time \in PeriodTimes :
          /\ clock = DateTime(5) + MinuteOf(time) - 1
          /\ reminders = <<[id |-> "r1", user_id |-> "u1", time |-> time,
                            enabled |-> 1]>>
    /\ pushSubs = [u \in Users |-> NoRow]
    /\ env = DefaultEnv

InitSched == InitMatch \/ InitNotify \/ InitTwin \/ InitPeriod

NextSched ==
    \/ StartTick
    \/ \E k \in 1..MaxTicks : ProcessReminder(k)

SpecSched == InitSched /\ [][NextSched]_vars

\* node-cron fires every minute while the process lives, and every awaited
\* call of a running tick settles
CronFairness ==
    /\ WF_vars(StartTick)
    /\ \A k \in 1..MaxTicks : WF_vars(ProcessReminder(k))

\* the databases of InitSched in which a tick can fail in each way: a user
\* with an unknown time zone, a reminder due at the first or the second tick,
\* a push subscription
InitCron ==
    /\ InitSched
    /\ getDay(clock, "UTC") = 5
    /\ env = DefaultEnv
    /\ prefs = [u \in Users |-> DefaultPrefs]
    /\ users["u1"].email # NULL
    /\ users["u1"].timezone \in {"UTC", BadZone}
    /\ \A j \in DOMAIN reminders :
          /\ reminders[j].enabled = 1
          /\ reminders[j].time \in {<<"2", "1", ":", "0", "0">>, <<"2", "1", ":", "0", "1">>}

SpecCron == InitCron /\ [][NextSched]_vars /\ CronFairness

(***************************************************************************)
(* The push-subscription routes and the purge of sendPushNotification, on  *)
(* the push_subscriptions table with all its rows.  A route runs without   *)
(* awaiting; sendPushNotification awaits the push service between reading  *)
(* the row and deleting it.                                                *)
(***************************************************************************)
Endpoints == {"https://push.example/a", "https://push.example/b"}

RowsOf(rows, userId) == {r \in rows : r.user_id = userId}

\* "DELETE FROM push_subscriptions WHERE user_id = ?"
DeleteRows(rows, userId) == rows \ RowsOf(rows, userId)

\* a registration that inserts without removing the old rows
RegisterKeepsOld(rows, userId, row) == rows \cup {row}

\* the DELETE and the INSERT of POST /push-subscription
Register(rows, userId, row) == DeleteRows(rows, userId) \cup {row}

\* POST /push-subscription with a complete body
PostPushSubscription(userId, endpoint) ==
    /\ uuids < MaxSubscriptions
    /\ uuids' = uuids + 1
    /\ pushRows' = Register(pushRows, userId,
                            [id |-> uuids', user_id |-> userId, endpoint |-> endpoint])
    /\ lastRegistered' = [lastRegistered EXCEPT ![userId] = uuids']
    /\ UNCHANGED <<clock, calcVars, users, streaks, lastCheck, schedVars, pushing,
                   request>>

\* DELETE /push-subscription
DeletePushSubscription(userId) ==
    /\ pushRows' = DeleteRows(pushRows, userId)
    /\ UNCHANGED <<clock, calcVars, users, streaks, lastCheck, schedVars, pushing,
                   lastRegistered, uuids, request>>

\* sendPushNotification up to "await webpush.sendNotification"
PushSend(userId) ==
    /\ env.vapid
    /\ RowsOf(pushRows, userId) # {}
    /\ userId \notin pushing
    /\ pushing' = pushing \cup {userId}
    /\ UNCHANGED <<clock, calcVars, users, streaks, lastCheck, schedVars, pushRows,
                   lastRegistered, uuids, request>>

\* sendPushNotification after the await: sent, or the catch block
PushSettle(userId) ==
    /\ userId \in pushing
    /\ pushing' = pushing \ {userId}
    /\ \E delivery \in {"ok", "410", "404", "500"} :
          pushRows' = IF delivery \in {"410", "404"}
                      THEN DeleteRows(pushRows, userId)
                      ELSE pushRows
    /\ UNCHANGED <<clock, calcVars, users, streaks, lastCheck, schedVars,
                   lastRegistered, uuids, request>>

\* both users have signed up; nobody has registered a subscription
InitPush ==
    /\ SchedIdle
    /\ clock \in StartInstants
    /\ users = [u \in Users |-> [email |-> "mail", timezone |-> "UTC"]]
    /\ prefs = [u \in Users |-> DefaultPrefs]
    /\ reminders = <<>>
    /\ pushSubs = [u \in Users |-> NoRow]
    /\ env = DefaultEnv

NextPush ==
    \/ \E u \in Users, endpoint \in Endpoints : PostPushSubscription(u, endpoint)
    \/ \E u \in Users : DeletePushSubscription(u)
    \/ \E u \in Users : PushSend(u)
    \/ \E u \in Users : PushSettle(u)

SpecPush == InitPush /\ [][NextPush]_vars

(***************************************************************************)
(* The reminder routes on the reminder_times table: rows are               *)
(* [id, user_id, time, enabled, label] in row order.                       *)
(***************************************************************************)
RouteTimes == {<<"0", "9", ":", "0", "0">>, <<"2", "1", ":", "0", "0">>}
Labels == {NULL, "gym"}

\* "WHERE id = ?" without the owner
NamedById(row, id, userId) == row.id = id

\* "WHERE id = ? AND user_id = ?"
Named(row, id, userId) == row.id = id /\ row.user_id = userId

\* POST /reminders
PostReminder(userId, time, label) ==
    /\ uuids < MaxReminders
    /\ uuids' = uuids + 1
    /\ reminders' = Append(reminders, [id |-> uuids', user_id |-> userId,
                                       time |-> time, enabled |-> 1, label |-> label])
    /\ request' = [route |-> "POST", user |-> userId, id |-> uuids']
    /\ UNCHANGED <<clock, calcVars, users, streaks, lastCheck, prefs, pushSubs, env,
                   ticks, log, pushRows, pushing, lastRegistered>>

\* PUT /reminders/:id
PutReminder(userId, id, time, enabled, label) ==
    /\ reminders' = [j \in DOMAIN reminders |->
                        IF Named(reminders[j], id, userId)
                        THEN [reminders[j] EXCEPT !.time = time,
                                                  !.enabled = IF enabled THEN 1 ELSE 0,
                                                  !.label = label]
                        ELSE reminders[j]]
    /\ request' = [route |-> "PUT", user |-> userId, id |-> id]
    /\ UNCHANGED <<clock, calcVars, users, streaks, lastCheck, prefs, pushSubs, env,
                   ticks, log, pushRows, pushing, lastRegistered, uuids>>

\* the rows that a DELETE leaves
RECURSIVE Remaining(_, _, _)
Remaining(rows, id, userId) ==
    IF rows = <<>> THEN <<>>
    ELSE IF Named(Head(rows), id, userId) THEN Remaining(Tail(rows), id, userId)
    ELSE <<Head(rows)>> \o Remaining(Tail(rows), id, userId)

\* DELETE /reminders/:id
DeleteReminder(userId, id) ==
    /\ reminders' = Remaining(reminders, id, userId)
    /\ request' = [route |-> "DELETE", user |-> userId, id |-> id]
    /\ UNCHANGED <<clock, calcVars, users, streaks, lastCheck, prefs, pushSubs, env,
                   ticks, log, pushRows, pushing, lastRegistered, uuids>>

\* both users have signed up; nobody has added a reminder
InitReminders ==
    /\ SchedIdle
    /\ clock \in StartInstants
    /\ users = [u \in Users |-> [email |-> "mail", timezone |-> "UTC"]]
    /\ prefs = [u \in Users |-> DefaultPrefs]
    /\ reminders = <<>>
    /\ pushSubs = [u \in Users |-> NoRow]
    /\ env = DefaultEnv

NextReminders ==
    \/ \E u \in Users, time \in RouteTimes, label \in Labels :
          PostReminder(u, time, label)
    \/ \E u \in Users, id \in 1..MaxReminders, time \in RouteTimes,
          enabled \in BOOLEAN, label \in Labels :
          PutReminder(u, id, time, enabled, label)
    \/ \E u \in Users, id \in 1..MaxReminders : DeleteReminder(u, id)

SpecReminders == InitReminders /\ [][NextReminders]_vars

(***************************************************************************)
(* Reading contribution data as a set of dated counts.                     *)
(***************************************************************************)
Entries(contributions) == {contributions[i] : i \in DOMAIN contributions}

\* date d has an entry with count > 0
Counts(contributions, d) ==
    \E e \in Entries(contributions) : e.date = d /\ e.count > 0

\* date d has an entry, and its count is 0
ZeroDay(contributions, d) ==
    \E e \in Entries(contributions) : e.date = d /\ e.count = 0

\* the dates with count > 0
CountingDates(contributions) ==
    {e.date : e \in {x \in Entries(contributions) : x.count > 0}}

\* the length of the run of consecutive counting dates that ends at date d
RunEndingAt(contributions, d) ==
    CHOOSE k \in 0..(MaxDay + 1) :
        /\ \A j \in 0..(k - 1) : Counts(contributions, d - j)
        /\ ~Counts(contributions, d - k)

CalcDone == calcResult # NoResult

\* C3: if the most recent day with count > 0 is neither today nor yesterday
\* on the user's wall clock (or no day counts), the calculator returns
\* current_streak = 0.
C3_StaleStreakIsZero ==
    CalcDone =>
        LET counting == CountingDates(calcInput.contributions)
            today == LocalDate(calcInput.now, calcInput.timezone)
        IN (counting = {} \/ (\E d \in counting :
                                  /\ \A x \in counting : x <= d
                                  /\ d \notin {today, today - 1}))
               => calcResult.currentStreak = 0

\* C5: when today's entry has count 0 and yesterday's has count > 0, the
\* current streak is the length of the run of consecutive counting days
\* that ends yesterday (today is the date of the evaluation instant).
C5_YesterdayRunKept ==
    LET today == IsoDate(calcInput.now) IN
    (/\ CalcDone
     /\ ZeroDay(calcInput.contributions, today)
     /\ Counts(calcInput.contributions, today - 1))
        => calcResult.currentStreak = RunEndingAt(calcInput.contributions, today - 1)

\* C5 witness: nothing yet today, and a run of two days ending yesterday is
\* reported as a streak of 2
C5_Witness ==
    LET today == IsoDate(calcInput.now) IN
    /\ CalcDone
    /\ ZeroDay(calcInput.contributions, today)
    /\ Counts(calcInput.contributions, today - 1)
    /\ Counts(calcInput.contributions, today - 2)
    /\ ~Counts(calcInput.contributions, today - 3)
    /\ calcResult.currentStreak = 2

(***************************************************************************)
(* Status checks (specification Spec).                                     *)
(***************************************************************************)
\* this step is a GET /today of user u that changed something
CheckStep(u) ==
    /\ lastCheck'.user = u
    /\ users' = users
    /\ clock' = clock
    /\ (lastCheck' # lastCheck \/ streaks' # streaks)

\* C1: after any sequence of status checks, starting from the row (0, 0)
\* created at sign-up, the persisted row satisfies
\* longest_streak >= current_streak >= 0.
C1_LongestAtLeastCurrent ==
    \A u \in Users :
        streaks[u] # NoRow =>
            /\ streaks[u].longest_streak >= streaks[u].current_streak
            /\ streaks[u].current_streak >= 0

\* C1 witness: a check has stored a running streak below the longest one
C1_Witness ==
    \E u \in Users :
        /\ lastCheck.user = u
        /\ streaks[u].current_streak > 0
        /\ streaks[u].longest_streak > streaks[u].current_streak

\* C2: the persisted longest_streak never decreases, and every status check
\* stores max(computed longest, previously stored longest).
C2_LongestRatchet ==
    [][\A u \in Users :
          streaks[u] # NoRow =>
              /\ streaks'[u] # NoRow
              /\ streaks'[u].longest_streak >= streaks[u].longest_streak
              /\ CheckStep(u) =>
                    streaks'[u].longest_streak
                        = Max(lastCheck'.longestStreak, streaks[u].longest_streak)]_vars

\* C2 witness: a check computed a longest streak below the stored one (here
\* from empty contribution data), and the stored one stayed
C2_Witness ==
    \E u \in Users :
        /\ lastCheck.user = u
        /\ lastCheck.source = "none"
        /\ lastCheck.longestStreak < streaks[u].longest_streak

\* C4: when the upstream contribution source is unavailable, a status check
\* leaves the persisted current_streak and longest_streak as they were.
C4_UnavailableKeepsCached ==
    [][\A u \in Users :
          (CheckStep(u) /\ lastCheck'.source = "none" /\ streaks[u] # NoRow) =>
              /\ streaks'[u].current_streak = streaks[u].current_streak
              /\ streaks'[u].longest_streak = streaks[u].longest_streak]_vars

(***************************************************************************)
(* The scheduler (specification SpecSched).                                *)
(***************************************************************************)
ReminderRows == {reminders[j] : j \in DOMAIN reminders}

\* the loop of tick k ran to its end
TickDone(k) ==
    /\ k \in DOMAIN ticks
    /\ ticks[k].rejection = "none"
    /\ ticks[k].i > Len(ticks[k].reminders)

\* what tick k logged of this kind for reminder rid
Logged(k, rid, kind) == {e \in log : e.tick = k /\ e.rid = rid /\ e.kind = kind}

DigitValue(c) == CHOOSE d \in 0..9 : Digits[d + 1] = c
IsDigit(c) == \E d \in 0..9 : Digits[d + 1] = c

\* time reads "HH:MM", two digits each, and names minute m of the day
ReadsAsMinute(time, m) ==
    /\ Len(time) = 5
    /\ time[3] = ":"
    /\ \A j \in {1, 2, 4, 5} : IsDigit(time[j])
    /\ (10 * DigitValue(time[1])) + DigitValue(time[2]) = m \div 60
    /\ (10 * DigitValue(time[4])) + DigitValue(time[5]) = m % 60

\* the wall clock of zone tz at instant now shows exactly this time
ShowsTime(now, tz, time) ==
    /\ tz \in Zones
    /\ ReadsAsMinute(time, (now + ZoneOffset(tz)) % MinPerDay)

\* C6: a reminder triggers a notification attempt (a call of
\* checkUserAndNotify) in a tick if and only if it is enabled and the tick's
\* instant, in the reminder's time zone as zero-padded 24-hour HH:MM, equals
\* its configured time.
C6_TriggersIffDue ==
    \A k \in DOMAIN ticks : \A r \in ReminderRows :
        LET due == /\ r.enabled = 1
                   /\ ShowsTime(ticks[k].now, users[r.user_id].timezone, r.time)
        IN /\ Logged(k, r.id, "checkUserAndNotify") # {} => due
           /\ (TickDone(k) /\ due) => Logged(k, r.id, "checkUserAndNotify") # {}

\* C6 witness: a reminder for 09:00 in Auckland triggered in the tick of
\* that minute and not in the tick one minute later
C6_Witness ==
    \E r \in ReminderRows :
        /\ users[r.user_id].timezone = "Pacific/Auckland"
        /\ r.time = <<"0", "9", ":", "0", "0">>
        /\ TickDone(1) /\ TickDone(2)
        /\ Logged(1, r.id, "checkUserAndNotify") # {}
        /\ Logged(2, r.id, "checkUserAndNotify") = {}

\* the day of the week at instant t on the wall clock of zone tz is
\* Saturday or Sunday
LocalWeekend(t, tz) == ((t + ZoneOffset(tz)) \div MinPerDay) % 7 \in {0, 6}

\* C7: with weekends_off set, a matching reminder produces no email and no
\* push exactly when the local weekday in the user's time zone is Saturday
\* or Sunday, and is not suppressed on a local Monday to Friday.
C7_WeekendInUserZone ==
    \A r \in ReminderRows : \A k \in DOMAIN ticks :
        \A call \in Logged(k, r.id, "checkUserAndNotify") :
            Truthy(prefs[r.user_id].weekends_off) =>
                IF LocalWeekend(ticks[k].now, users[r.user_id].timezone)
                THEN Logged(k, r.id, "email") = {} /\ Logged(k, r.id, "push") = {}
                ELSE Logged(k, r.id, "hasCommittedToday") # {}

\* the channel checks were reached for reminder r in tick k: an email was
\* attempted exactly if email is enabled and the user has an address, a push
\* exactly if push is enabled
ChannelChecks(k, r) ==
    /\ Logged(k, r.id, "email") # {}
           <=> (prefs[r.user_id].email_enabled = 1 /\ users[r.user_id].email # NULL)
    /\ Logged(k, r.id, "push") # {} <=> prefs[r.user_id].push_enabled = 1

C9_ChannelsIndependent ==
    \A r \in ReminderRows : \A k \in DOMAIN ticks :
        /\ \A mail \in Logged(k, r.id, "email") :
              (mail.result # "sent" /\ prefs[r.user_id].push_enabled = 1)
                  => Logged(k, r.id, "push") # {}
        /\ \A push \in Logged(k, r.id, "push") :
              push.result # "sent" =>
                  (Logged(k, r.id, "email") # {}
                      <=> (prefs[r.user_id].email_enabled = 1
                              /\ users[r.user_id].email # NULL))

\* C9 witness: the email send failed and the push of the same reminder was
\* still delivered
C9_Witness ==
    \E r \in ReminderRows :
        /\ \E mail \in Logged(1, r.id, "email") : mail.result = "failed"
        /\ \E push \in Logged(1, r.id, "push") : push.result = "sent"

\* C10: a failure while processing one user's reminder is caught, and every
\* later matching reminder of another user in that tick is still processed.
C10_ScanContinuesAfterError ==
    \A k \in DOMAIN ticks :
        TickDone(k) =>
            \A i, j \in DOMAIN ticks[k].reminders :
                LET failed == ticks[k].reminders[i]
                    later == ticks[k].reminders[j]
                IN (/\ i < j
                    /\ failed.user_id # later.user_id
                    /\ Logged(k, failed.id, "error") # {}
                    /\ ShowsTime(ticks[k].now, later.timezone, later.time))
                       => Logged(k, later.id, "checkUserAndNotify") # {}

\* C10 witness: the first reminder's GitHub call threw, and the second
\* user's reminder was then processed up to its email
C10_Witness ==
    /\ TickDone(1)
    /\ Len(ticks[1].reminders) = 2
    /\ \E e \in Logged(1, ticks[1].reminders[1].id, "error") : e.result = "github"
    /\ ticks[1].reminders[1].user_id # ticks[1].reminders[2].user_id
    /\ Logged(1, ticks[1].reminders[2].id, "email") # {}

\* the promise of tick k has settled: its loop is over or its query threw
TickEnded(k) == k \in DOMAIN ticks /\ ticks[k].i > Len(ticks[k].reminders)

\* C11: whatever fails inside a tick (a reminder's time zone, a GitHub
\* call, a send, the reminders query itself), the tick ends and the next
\* tick is still started: each of the ticks that the model follows is
\* eventually started and eventually ends.
C11_TicksKeepOccurring == \A k \in 1..MaxTicks : <>TickEnded(k)

\* C11 witness: the query of the first tick threw, and the next tick ran
\* and called checkUserAndNotify
C11_Witness ==
    /\ Len(ticks) >= 2
    /\ ticks[1].rejection = "caught"
    /\ TickDone(2)
    /\ \E r \in ReminderRows : Logged(2, r.id, "checkUserAndNotify") # {}

(***************************************************************************)
(* Suggestion claims (specification SpecSuggest).                          *)
(***************************************************************************)
SuggestDone == suggestResult # NoSuggestResult

\* the positions of the candidates that are not excluded
EligibleAt ==
    {i \in DOMAIN suggestInput.repos :
        suggestInput.repos[i].full_name \notin suggestInput.excludedRepos}

\* the draw made for candidate i: draws are made in list order, for the
\* eligible candidates only
RandomAt(i) == suggestResult.randoms[Cardinality({j \in EligibleAt : j <= i})]

ScoreAt(i) ==
    Score(suggestInput.repos[i],
          NotesGet(suggestInput.repoNotes, suggestInput.repos[i].full_name),
          suggestInput.now, RandomAt(i))

\* C12: getSuggestion never returns an excluded repository, and it returns
\* null exactly when every candidate is excluded or there is no candidate.
C12_NeverExcluded ==
    SuggestDone =>
        LET returned == suggestResult.returned
        IN /\ Len(returned) <= 1
           /\ \A k \in DOMAIN returned :
                 /\ returned[k].full_name \notin suggestInput.excludedRepos
                 /\ \E i \in DOMAIN suggestInput.repos :
                       suggestInput.repos[i].full_name = returned[k].full_name
           /\ returned = <<>> <=> EligibleAt = {}

\* C12 witness: the first of two candidates, the long-neglected one, is
\* excluded and the second is returned
C12_Witness ==
    /\ SuggestDone
    /\ Len(suggestInput.repos) = 2
    /\ suggestInput.excludedRepos = {suggestInput.repos[1].full_name}
    /\ suggestInput.repos[1].open_issues_count = 60
    /\ suggestInput.repos[2].open_issues_count = 0
    /\ Len(suggestResult.returned) = 1
    /\ suggestResult.returned[1].full_name = suggestInput.repos[2].full_name

\* C13: for a non-empty eligible set and any random draws, the returned
\* repository scores at least as much as every eligible repository, and
\* the returned record carries its own daysSinceLastPush and score.
C13_ReturnsMaxScore ==
    (SuggestDone /\ EligibleAt # {}) =>
        /\ Len(suggestResult.returned) = 1
        /\ \E i \in EligibleAt :
              LET returned == suggestResult.returned[1]
                  repo == suggestInput.repos[i]
              IN /\ returned.full_name = repo.full_name
                 /\ returned.score = ScoreAt(i)
                 /\ returned.daysSinceLastPush =
                        (suggestInput.now - repo.pushed_at) \div MinPerDay
                 /\ \A j \in EligibleAt : ScoreAt(i) >= ScoreAt(j)

\* C13 witness: two eligible candidates alike in everything but the draw;
\* the second has the larger draw and is returned
C13_Witness ==
    /\ SuggestDone
    /\ Len(suggestInput.repos) = 2
    /\ EligibleAt = {1, 2}
    /\ suggestInput.repos[1].pushed_at = suggestInput.repos[2].pushed_at
    /\ suggestInput.repos[1].open_issues_count = suggestInput.repos[2].open_issues_count
    /\ \A name \in DOMAIN suggestInput.repoNotes : suggestInput.repoNotes[name] = NoRow
    /\ suggestResult.randoms[1] < suggestResult.randoms[2]
    /\ suggestResult.returned[1].full_name = suggestInput.repos[2].full_name

\* the candidate at position i was pushed days ago and has issues open issues
IsRepo(i, days, issues) ==
    /\ DaysSinceLastPush(suggestInput.now, suggestInput.repos[i].pushed_at) = days
    /\ suggestInput.repos[i].open_issues_count = issues

\* C14: with nothing excluded and no notes, a repository pushed 400 days ago
\* with 60 open issues is selected over one pushed 1 day ago with none for
\* every pair of draws: its day and issue components are 30 and 20 points
\* and the random component is less than 10 points.
C14_NeglectedRepoWins ==
    \A old, new \in DOMAIN suggestInput.repos :
        (/\ SuggestDone
         /\ Len(suggestInput.repos) = 2
         /\ suggestInput.excludedRepos = {}
         /\ \A name \in DOMAIN suggestInput.repoNotes : suggestInput.repoNotes[name] = NoRow
         /\ IsRepo(old, 400, 60)
         /\ IsRepo(new, 1, 0))
        => /\ suggestResult.returned[1].full_name = suggestInput.repos[old].full_name
           /\ DayScore(400) = 30 * ScoreScale
           /\ IssueScore(60) = 20 * ScoreScale
           /\ \A random \in 0..(RandomSteps - 1) : RandomScore(random) < 10 * ScoreScale
           /\ ScoreAt(old) - RandomScore(RandomAt(old)) >
                  (ScoreAt(new) - RandomScore(RandomAt(new))) + (10 * ScoreScale)

\* C14 witness: the neglected repository drew the least and the fresh one
\* the most, and the neglected one was returned
C14_Witness ==
    /\ SuggestDone
    /\ Len(suggestInput.repos) = 2
    /\ suggestInput.excludedRepos = {}
    /\ \A name \in DOMAIN suggestInput.repoNotes : suggestInput.repoNotes[name] = NoRow
    /\ IsRepo(2, 400, 60)
    /\ IsRepo(1, 1, 0)
    /\ suggestResult.randoms[2] = 0
    /\ suggestResult.randoms[1] = RandomSteps - 1
    /\ suggestResult.returned[1].full_name = suggestInput.repos[2].full_name

\* C15: a repository without a note, or with a note that lacks the priority
\* or the difficulty, scores as with priority 3 and difficulty 3; for the
\* same repository and draw a higher priority in 1..5 never lowers the
\* score and a higher difficulty in 1..5 never raises it (stated for each
\* step from p to p + 1, which gives every pair).
C15_NoteDefaultsAndMonotone ==
    SuggestDone =>
        \A i \in EligibleAt :
            LET repo == suggestInput.repos[i]
                random == RandomAt(i)
                ScoreWith(notes) == Score(repo, notes, suggestInput.now, random)
                given == NotesGet(suggestInput.repoNotes, repo.full_name)
                filled == [priority |-> IF given # NoRow /\ "priority" \in DOMAIN given
                                        THEN given.priority ELSE 3,
                           difficulty |-> IF given # NoRow /\ "difficulty" \in DOMAIN given
                                          THEN given.difficulty ELSE 3]
            IN /\ ScoreAt(i) = ScoreWith(filled)
               /\ ScoreWith(NoRow) = ScoreWith([priority |-> 3, difficulty |-> 3])
               /\ \A p \in 1..5 :
                     /\ ScoreWith([priority |-> p]) = ScoreWith([priority |-> p, difficulty |-> 3])
                     /\ ScoreWith([difficulty |-> p]) = ScoreWith([priority |-> 3, difficulty |-> p])
               /\ \A p \in 1..4, d \in 1..5 :
                     /\ ScoreWith([priority |-> p, difficulty |-> d])
                            <= ScoreWith([priority |-> p + 1, difficulty |-> d])
                     /\ ScoreWith([priority |-> d, difficulty |-> p])
                            >= ScoreWith([priority |-> d, difficulty |-> p + 1])

\* C15 witness: of two candidates alike but for the notes, with equal draws,
\* the one noted as difficult lost to the one without a note
C15_Witness ==
    /\ SuggestDone
    /\ Len(suggestInput.repos) = 2
    /\ EligibleAt = {1, 2}
    /\ suggestInput.repos[1].pushed_at = suggestInput.repos[2].pushed_at
    /\ suggestInput.repos[1].open_issues_count = suggestInput.repos[2].open_issues_count
    /\ suggestInput.repoNotes[suggestInput.repos[1].full_name] = [difficulty |-> 5]
    /\ suggestInput.repoNotes[suggestInput.repos[2].full_name] = NoRow
    /\ suggestResult.randoms[1] = suggestResult.randoms[2]
    /\ suggestResult.returned[1].full_name = suggestInput.repos[2].full_name

(***************************************************************************)
(* Calculator claims (specification SpecCalc), continued.                  *)
(***************************************************************************)
\* the length of the longest run of consecutive counting dates
LongestRun(contributions) ==
    CHOOSE m \in 0..(MaxDay + 1) :
        /\ \E d \in Dates : RunEndingAt(contributions, d) = m
        /\ \A d \in Dates : RunEndingAt(contributions, d) <= m

\* date d has no entry
NoEntry(contributions, d) == \A e \in Entries(contributions) : e.date # d

\* C16: the longest streak is the length of the longest run of entries with
\* count > 0 on consecutive calendar days, 0 if no entry counts; a counting
\* day after a missing date or after a zero day starts a new run of 1.
C16_LongestIsLongestRun ==
    CalcDone =>
        /\ calcResult.longestStreak = LongestRun(calcInput.contributions)
        /\ CountingDates(calcInput.contributions) = {} => calcResult.longestStreak = 0

\* C16 witness: two counting days, a missing date, one more counting day:
\* the longest streak is 2, not 3
C16_Witness ==
    /\ CalcDone
    /\ Counts(calcInput.contributions, 0)
    /\ Counts(calcInput.contributions, 1)
    /\ NoEntry(calcInput.contributions, 2)
    /\ Counts(calcInput.contributions, 3)
    /\ calcResult.longestStreak = 2

\* the most recent counting day is today or yesterday (UTC dates of the
\* evaluation instant, as the calculator takes them)
StartDay(contributions, now) ==
    {d \in CountingDates(contributions) :
        /\ \A x \in CountingDates(contributions) : x <= d
        /\ d \in {IsoDate(now), IsoDate(now) - 1}}

\* no entry is dated after the day of the evaluation
NoneAfterToday(contributions, now) ==
    \A e \in Entries(contributions) : e.date <= IsoDate(now)

\* every date between two entries has an entry, as in a calendar
Contiguous(contributions) ==
    \A a, b \in Entries(contributions) :
        \A d \in Dates : (a.date < d /\ d < b.date) => ~NoEntry(contributions, d)

\* C17: once a valid starting day is found, the current streak is the
\* length of the backward run of consecutive counting days from it; it
\* stops at the first zero day or missing date and adds no older day.
\* The data is a calendar without missing dates, or it holds no entry dated
\* after the day of the evaluation.
C17_CurrentIsRunFromStart ==
    (/\ CalcDone
     /\ \/ NoneAfterToday(calcInput.contributions, calcInput.now)
        \/ Contiguous(calcInput.contributions))
        => \A start \in StartDay(calcInput.contributions, calcInput.now) :
              calcResult.currentStreak = RunEndingAt(calcInput.contributions, start)

\* C17 witness: today and yesterday count, the day before has count 0 and
\* the day before that counts again: the streak is 2
C17_Witness ==
    LET today == IsoDate(calcInput.now) IN
    /\ CalcDone
    /\ Counts(calcInput.contributions, today)
    /\ Counts(calcInput.contributions, today - 1)
    /\ ZeroDay(calcInput.contributions, today - 2)
    /\ Counts(calcInput.contributions, today - 3)
    /\ calcResult.currentStreak = 2

\* C18: for every contribution sequence, the empty one included, and every
\* evaluation instant the calculator returns longestStreak >= currentStreak
\* >= 0.
C18_CalculatedLongestAtLeastCurrent ==
    CalcDone =>
        /\ calcResult.currentStreak >= 0
        /\ calcResult.longestStreak >= calcResult.currentStreak
        /\ calcInput.contributions = <<>> =>
              calcResult.currentStreak = 0 /\ calcResult.longestStreak = 0

\* C18 witness: a streak of two days or more that is both the current and
\* the longest one
C18_Witness ==
    /\ CalcDone
    /\ calcResult.currentStreak >= 2
    /\ calcResult.longestStreak = calcResult.currentStreak

(***************************************************************************)
(* Scheduler claims (specification SpecSched), continued.                  *)
(***************************************************************************)
\* the user that reminder rid belongs to
OwnerOf(rid) == (CHOOSE r \in ReminderRows : r.id = rid).user_id

\* what this step logged of this kind for a reminder of user u
NewlyLogged(u, kind) ==
    {e \in log' \ log : e.kind = kind /\ OwnerOf(e.rid) = u}

\* C19: a failed push deletes the user's stored subscription if and only if
\* the push service answered 410 or 404; any other failure leaves the row
\* as it was; either way the failure is a result of the call, not an error
\* thrown to checkUserAndNotify.
C19_PurgeOnlyWhenGone ==
    [][\A u \in Users :
          LET failures == {e \in NewlyLogged(u, "push") :
                              e.result \in {"410", "404", "other"}}
              gone == {e \in failures : e.result \in {"410", "404"}}
          IN /\ pushSubs'[u] # pushSubs[u] <=> gone # {}
             /\ gone # {} => pushSubs[u] # NoRow /\ pushSubs'[u] = NoRow
             /\ failures # {} => NewlyLogged(u, "error") = {}]_vars

\* C19 witness: the push service answered 410 and the subscription is gone
C19_Witness ==
    \E e \in log :
        /\ e.kind = "push"
        /\ e.result = "410"
        /\ pushSubs[OwnerOf(e.rid)] = NoRow

\* the events of this kind that tick k logged for reminders of user u
LoggedFor(k, u, kind) ==
    {e \in log : e.tick = k /\ e.kind = kind /\ OwnerOf(e.rid) = u}

\* C20: within one tick a user gets one notification attempt: one call of
\* checkUserAndNotify, at most one email and at most one push, also when
\* several of the user's enabled reminders have the same time.
C20_OneAttemptPerUserPerTick ==
    \A k \in DOMAIN ticks : \A u \in Users :
        /\ Cardinality(LoggedFor(k, u, "checkUserAndNotify")) <= 1
        /\ Cardinality(LoggedFor(k, u, "email")) <= 1
        /\ Cardinality(LoggedFor(k, u, "push")) <= 1

\* the hour that a zero-padded time names
HourOf(time) == (10 * DigitValue(time[1])) + DigitValue(time[2])

\* C21: a matched reminder is classified by the hour of its configured
\* time, morning below 12, afternoon from 12 and below 17, evening from 17,
\* and the email sent for it carries that period.
C21_PeriodByHour ==
    \A r \in ReminderRows : \A k \in DOMAIN ticks :
        \A e \in Logged(k, r.id, "checkUserAndNotify") \cup Logged(k, r.id, "email") :
            /\ HourOf(r.time) < 12 => e.type = "morning"
            /\ (12 <= HourOf(r.time) /\ HourOf(r.time) < 17) => e.type = "afternoon"
            /\ HourOf(r.time) >= 17 => e.type = "evening"

\* C21 witness: the email for a reminder at 12:00 was an afternoon email
C21_Witness ==
    \E r \in ReminderRows :
        /\ r.time = <<"1", "2", ":", "0", "0">>
        /\ \E e \in Logged(1, r.id, "email") : e.result = "sent" /\ e.type = "afternoon"

\* the push results that stand for a call of webpush.sendNotification
PushAttempts == {"sent", "410", "404", "other"}

\* C22: an email is sent only if email_enabled is set and the user has an
\* address; a push is sent only if push_enabled is set and a subscription
\* of the user is on file when it is sent; a disabled channel is never used.
C22_OnlyEnabledChannels ==
    [][\A u \in Users :
          /\ NewlyLogged(u, "email") # {} =>
                Truthy(prefs[u].email_enabled) /\ users[u].email # NULL
          /\ NewlyLogged(u, "push") # {} => Truthy(prefs[u].push_enabled)
          /\ (\E e \in NewlyLogged(u, "push") : e.result \in PushAttempts) =>
                pushSubs[u] # NoRow /\ env.vapid]_vars

\* C22 witness: with email disabled and push enabled, a push was sent to
\* the subscription on file and no email was attempted
C22_Witness ==
    \E r \in ReminderRows :
        /\ prefs[r.user_id].email_enabled = 0
        /\ prefs[r.user_id].push_enabled = 1
        /\ pushSubs[r.user_id] # NoRow
        /\ \E e \in Logged(1, r.id, "push") : e.result = "sent"
        /\ Logged(1, r.id, "email") = {}

\* the entries of contributions, oldest first
Chronological(contributions) ==
    LET entries == {contributions[i] : i \in DOMAIN contributions}
    IN [i \in DOMAIN contributions |->
           CHOOSE e \in entries :
               Cardinality({f \in entries : f.date < e.date}) = i - 1]

\* C23: the calculator's result is a function of the set of entries and of
\* the evaluation day: it is what any evaluation on the same day returns for
\* the same entries supplied oldest first.
C23_OrderIndependent ==
    CalcDone =>
        \A t \in Instants :
            IsoDate(t) = IsoDate(calcInput.now) =>
                calcResult = getCurrentStreak(Chronological(calcInput.contributions), t)

\* C23 witness: three counting days supplied neither oldest nor newest
\* first, ending today, give a streak of 3
C23_Witness ==
    /\ CalcDone
    /\ Len(calcInput.contributions) = 3
    /\ calcInput.contributions[2].date < calcInput.contributions[1].date
    /\ calcInput.contributions[2].date < calcInput.contributions[3].date
    /\ calcResult.currentStreak = 3
    /\ calcResult.longestStreak = 3

CommittedDone == commitResult # NoCommitResult

\* C24: hasCommittedToday returns and never throws; when the GraphQL request
\* and the events fallback both fail it returns (false, 0); and every result
\* has hasCommitted exactly when commitCount > 0.
C24_NeverThrowsAndConsistent ==
    CommittedDone =>
        /\ commitResult # Thrown
        /\ (~commitInput.graphql.ok /\ ~commitInput.events.ok)
               => commitResult = [hasCommitted |-> FALSE, commitCount |-> 0]
        /\ commitResult.hasCommitted <=> commitResult.commitCount > 0

\* C24 witness: GraphQL fails and so does the events request
C24_Witness ==
    /\ CommittedDone
    /\ ~commitInput.graphql.ok
    /\ ~commitInput.events.ok
    /\ commitResult = [hasCommitted |-> FALSE, commitCount |-> 0]

\* the scheduler has computed the suggestion of a notification
ReminderSuggested == SuggestDone /\ "reminder" \in DOMAIN suggestResult

\* the repository that a suggestion names (none for null)
NamesOf(returned) == {returned[i].full_name : i \in DOMAIN returned}

\* C25: the suggestion inside a reminder notification names the repository
\* that the suggestion endpoint picks from the same repositories, excluded
\* set, stored notes and random draws.
C25_ReminderUsesEndpointInputs ==
    ReminderSuggested =>
        NamesOf(suggestResult.returned) =
            NamesOf(getSuggestion(suggestInput.repos, suggestInput.excludedRepos,
                                  suggestInput.repoNotes, suggestInput.now,
                                  suggestResult.randoms))

\* C26: the currentStreak and longestStreak of the last GET /today response
\* are the current_streak and longest_streak that the check stored for the
\* user.
C26_ResponseEqualsPersisted ==
    lastCheck # NoCheck =>
        /\ lastCheck.currentStreak = streaks[lastCheck.user].current_streak
        /\ lastCheck.longestStreak = streaks[lastCheck.user].longest_streak

\* a last_commit_date that is a date, not null
IsDate(last_commit_date) == last_commit_date # NoDate

\* C28: a status check stores today as last_commit_date when the user has
\* committed today and leaves the stored value otherwise; the row created at
\* sign-up holds null; and no step moves last_commit_date to an earlier date
\* or back to null.
C28_LastCommitDate ==
    [][\A u \in Users :
          /\ (streaks[u] = NoRow /\ streaks'[u] # NoRow)
                 => ~IsDate(streaks'[u].last_commit_date)
          /\ streaks[u] # NoRow =>
                /\ streaks'[u] # NoRow
                /\ CheckStep(u) =>
                      streaks'[u].last_commit_date
                          = IF lastCheck'.hasCommitted THEN IsoDate(clock)
                            ELSE streaks[u].last_commit_date
                /\ IsDate(streaks[u].last_commit_date) =>
                      /\ IsDate(streaks'[u].last_commit_date)
                      /\ streaks'[u].last_commit_date >= streaks[u].last_commit_date]_vars

\* C28 witness: a check on a later day found no commit and left the date of
\* the earlier day in the row
C28_Witness ==
    \E u \in Users :
        /\ lastCheck.user = u
        /\ ~lastCheck.hasCommitted
        /\ IsDate(streaks[u].last_commit_date)
        /\ streaks[u].last_commit_date < IsoDate(clock)

\* C27: ticks start in distinct minutes and each compares every reminder
\* with the instant read at its start, so a reminder triggers in at most one
\* tick, the one whose start instant shows the reminder's time, also when
\* the turns of two running ticks interleave.
C27_OneTickPerMinute ==
    \A k1, k2 \in DOMAIN ticks :
        k1 # k2 =>
            /\ ticks[k1].now # ticks[k2].now
            /\ \A r \in ReminderRows :
                  Logged(k1, r.id, "checkUserAndNotify") = {}
                  \/ Logged(k2, r.id, "checkUserAndNotify") = {}

\* C27 witness: the first tick triggered its first reminder and has not
\* turned to the second yet, while the second tick, started a minute later,
\* has triggered that second reminder and ended
C27_Witness ==
    /\ Len(ticks) >= 2
    /\ Len(ticks[1].reminders) = 2
    /\ ticks[1].i = 2
    /\ Logged(1, ticks[1].reminders[1].id, "checkUserAndNotify") # {}
    /\ TickDone(2)
    /\ Logged(2, ticks[1].reminders[2].id, "checkUserAndNotify") # {}

\* C29: whatever registrations, deletions and purges have happened, a user
\* has at most one row in push_subscriptions, a stored row is the one of the
\* user's most recent registration, and a registration leaves exactly its
\* own row for the user.
C29_OneSubscriptionTheLatest ==
    /\ [](\A u \in Users :
             /\ Cardinality(RowsOf(pushRows, u)) <= 1
             /\ \A r \in RowsOf(pushRows, u) : r.id = lastRegistered[u])
    /\ [][\A u \in Users :
             lastRegistered'[u] # lastRegistered[u] =>
                 /\ Cardinality(RowsOf(pushRows', u)) = 1
                 /\ \A r \in RowsOf(pushRows', u) : r.id = lastRegistered'[u]]_vars

\* C29 witness: a user registered a second time while a send to the first
\* subscription was awaited; the second row is the only one
C29_Witness ==
    \E u \in Users :
        /\ u \in pushing
        /\ lastRegistered[u] = 2
        /\ \E r \in pushRows : r.user_id = u /\ r.id = 2
        /\ Cardinality(RowsOf(pushRows, u)) = 1

\* C30: a PUT or DELETE of a reminder id changes the table only if the id
\* names a reminder of the requesting user, and then every other row stays
\* as it was: same id, owner, time, enabled flag and label.
C30_OnlyOwnReminder ==
    [][(request'.route \in {"PUT", "DELETE"} /\ reminders' # reminders) =>
          /\ \E j \in DOMAIN reminders :
                /\ reminders[j].id = request'.id
                /\ reminders[j].user_id = request'.user
          /\ \A j \in DOMAIN reminders :
                reminders[j].id # request'.id =>
                    \E i \in DOMAIN reminders' : reminders'[i] = reminders[j]]_vars

\* C30 witness: the last request was a PUT naming a reminder of another
\* user, and both users' reminders are in the table
C30_Witness ==
    /\ request.route = "PUT"
    /\ \E j \in DOMAIN reminders :
          /\ reminders[j].id = request.id
          /\ reminders[j].user_id # request.user
    /\ \E j \in DOMAIN reminders : reminders[j].user_id = request.user

====
